---------------------------- MODULE Spec2Model ----------------------------
(***************************************************************************)
(* Model of orbit's `functions pull` harness                               *)
(* (src/orbit/src/commands/functions.rs): the runtime classifier, the      *)
(* layout resolver, the toolchain locator, the local test dispatcher and   *)
(* the pull orchestrator run_pull.                                         *)
(*                                                                         *)
(* Strings of the program are sequences of one-character strings, so that  *)
(* to_lowercase, contains, starts_with, rsplit_once, replace and trim are  *)
(* computed character by character as the code computes them.              *)
(***************************************************************************)
EXTENDS Integers, Sequences, FiniteSets, TLC

VARIABLES
    pull,     \* per pull of run_pull: its arguments, locals and position
    dirs,     \* the filesystem: the set of existing directories
    files,    \* the filesystem: path -> content of every existing file
    procs,    \* every subprocess started so far, in order
    cl        \* one evaluation of the pure functions (classifier, layout)

vars == <<pull, dirs, files, procs, cl>>

-----------------------------------------------------------------------------
(* Bounds of the model.                                                    *)

\* a runtime string fed to the classifier is at most this many tokens long
MaxRuntimeParts == 3
\* a handler string fed to the layout resolver has at most this many
\* dot-separated segments
MaxSegs == 3

-----------------------------------------------------------------------------
(* Characters and strings.                                                 *)

UpperChars == <<"A","B","C","D","E","F","G","H","I","J","K","L","M",
                "N","O","P","Q","R","S","T","U","V","W","X","Y","Z">>
LowerChars == <<"a","b","c","d","e","f","g","h","i","j","k","l","m",
                "n","o","p","q","r","s","t","u","v","w","x","y","z">>

\* char::to_lowercase on the ASCII range
ToLowerChar(c) ==
    IF \E i \in 1..26 : UpperChars[i] = c
    THEN LowerChars[CHOOSE i \in 1..26 : UpperChars[i] = c]
    ELSE c

\* str::to_lowercase
to_lowercase(s) == IF s = <<>> THEN <<>> ELSE [i \in 1..Len(s) |-> ToLowerChar(s[i])]

\* str::contains with a string pattern
contains(s, pat) ==
    \E i \in 1..(Len(s) - Len(pat) + 1) : SubSeq(s, i, i + Len(pat) - 1) = pat

\* str::starts_with
starts_with(s, pat) == Len(pat) <= Len(s) /\ SubSeq(s, 1, Len(pat)) = pat

\* str::replace(from, to) for a one-character pattern and replacement
replace(s, from, to) ==
    IF s = <<>> THEN <<>> ELSE [i \in 1..Len(s) |-> IF s[i] = from THEN to ELSE s[i]]

None == [some |-> FALSE]
Some(v) == [some |-> TRUE, v |-> v]

\* str::rsplit_once(c): the text before and after the LAST occurrence of c
rsplit_once(s, c) ==
    IF \E i \in 1..Len(s) : s[i] = c
    THEN LET k == CHOOSE i \in 1..Len(s) :
                      s[i] = c /\ \A j \in (i+1)..Len(s) : s[j] # c
         IN  Some(<<SubSeq(s, 1, k - 1), SubSeq(s, k + 1, Len(s))>>)
    ELSE None

\* str::split_once(c): the text before and after the FIRST occurrence of c
split_once(s, c) ==
    IF \E i \in 1..Len(s) : s[i] = c
    THEN LET k == CHOOSE i \in 1..Len(s) :
                      s[i] = c /\ \A j \in 1..(i-1) : s[j] # c
         IN  Some(<<SubSeq(s, 1, k - 1), SubSeq(s, k + 1, Len(s))>>)
    ELSE None

S_python     == <<"p","y","t","h","o","n">>
S_node       == <<"n","o","d","e">>
S_javascript == <<"j","a","v","a","s","c","r","i","p","t">>
S_typescript == <<"t","y","p","e","s","c","r","i","p","t">>
S_golang     == <<"g","o","l","a","n","g">>
S_go         == <<"g","o">>
S_go_colon   == <<"g","o",":">>
S_rust       == <<"r","u","s","t">>
S_java       == <<"j","a","v","a">>

S_main_py      == <<"m","a","i","n",".","p","y">>
S_index_js     == <<"i","n","d","e","x",".","j","s">>
S_main_go      == <<"m","a","i","n",".","g","o">>
S_src_main_rs  == <<"s","r","c","/","m","a","i","n",".","r","s">>
S_Main_java    == <<"M","a","i","n",".","j","a","v","a">>
S_function_txt == <<"f","u","n","c","t","i","o","n",".","t","x","t">>
S_dot_py       == <<".","p","y">>
S_dot_js       == <<".","j","s">>

-----------------------------------------------------------------------------
(* Runtime Classifier and Layout Resolver.                                 *)

RuntimeFamily == {"Python", "Node", "Go", "Rust", "Java", "Unknown"}

\* a plausible slip: the runtime is matched without being lower-cased
detect_runtime_family_case_sensitive(runtime) ==
    LET rt == runtime IN
    IF contains(rt, S_python) THEN "Python"
    ELSE IF contains(rt, S_node) \/ contains(rt, S_javascript) \/ contains(rt, S_typescript)
         THEN "Node"
    ELSE IF contains(rt, S_golang) \/ rt = S_go \/ starts_with(rt, S_go_colon) THEN "Go"
    ELSE IF contains(rt, S_rust) THEN "Rust"
    ELSE IF contains(rt, S_java) THEN "Java"
    ELSE "Unknown"

\* a plausible slip: the Java test is made before the Node test
detect_runtime_family_java_first(runtime) ==
    LET rt == to_lowercase(runtime) IN
    IF contains(rt, S_python) THEN "Python"
    ELSE IF contains(rt, S_java) THEN "Java"
    ELSE IF contains(rt, S_node) \/ contains(rt, S_javascript) \/ contains(rt, S_typescript)
         THEN "Node"
    ELSE IF contains(rt, S_golang) \/ rt = S_go \/ starts_with(rt, S_go_colon) THEN "Go"
    ELSE IF contains(rt, S_rust) THEN "Rust"
    ELSE "Unknown"

detect_runtime_family(runtime) ==
    LET rt == to_lowercase(runtime) IN
    IF contains(rt, S_python) THEN "Python"
    ELSE IF contains(rt, S_node) \/ contains(rt, S_javascript) \/ contains(rt, S_typescript)
         THEN "Node"
    ELSE IF contains(rt, S_golang) \/ rt = S_go \/ starts_with(rt, S_go_colon) THEN "Go"
    ELSE IF contains(rt, S_rust) THEN "Rust"
    ELSE IF contains(rt, S_java) THEN "Java"
    ELSE "Unknown"

\* a plausible slip: the dots of the module path are not turned into '/'
rel_path_of_keeps_dots(family, module) ==
    CASE family = "Python" -> IF module.some THEN module.v \o S_dot_py ELSE S_main_py
      [] family = "Node"   -> IF module.some THEN module.v \o S_dot_js ELSE S_index_js
      [] family = "Go"      -> S_main_go
      [] family = "Rust"    -> S_src_main_rs
      [] family = "Java"    -> S_Main_java
      [] family = "Unknown" -> S_function_txt

\* the match of source_file_rel_path: the path for a family and an optional
\* module path
rel_path_of(family, module) ==
    CASE family = "Python" ->
             IF module.some THEN replace(module.v, ".", "/") \o S_dot_py ELSE S_main_py
      [] family = "Node" ->
             IF module.some THEN replace(module.v, ".", "/") \o S_dot_js ELSE S_index_js
      [] family = "Go"      -> S_main_go
      [] family = "Rust"    -> S_src_main_rs
      [] family = "Java"    -> S_Main_java
      [] family = "Unknown" -> S_function_txt

\* a plausible slip: the handler is split at its first dot, not its last
source_file_rel_path_first_dot(runtime, handler) ==
    LET family == detect_runtime_family(runtime)
        sp     == split_once(handler, ".")
        module == IF sp.some /\ sp.v[1] # <<>> THEN Some(sp.v[1]) ELSE None
    IN  rel_path_of(family, module)

source_file_rel_path(runtime, handler) ==
    LET family == detect_runtime_family(runtime)
        sp     == rsplit_once(handler, ".")
        module == IF sp.some /\ sp.v[1] # <<>> THEN Some(sp.v[1]) ELSE None
    IN  rel_path_of(family, module)


-----------------------------------------------------------------------------
(* Text, JSON values and errors.                                           *)

Whitespace == {" ", "\t", "\n"}

\* a plausible slip: only the leading whitespace is removed
trim_start(s) ==
    IF \A i \in 1..Len(s) : s[i] \in Whitespace THEN <<>>
    ELSE LET a == CHOOSE i \in 1..Len(s) :
                      s[i] \notin Whitespace /\ \A j \in 1..(i-1) : s[j] \in Whitespace
         IN  SubSeq(s, a, Len(s))

\* str::trim
trim(s) ==
    IF \A i \in 1..Len(s) : s[i] \in Whitespace THEN <<>>
    ELSE LET a == CHOOSE i \in 1..Len(s) :
                      s[i] \notin Whitespace /\ \A j \in 1..(i-1) : s[j] \in Whitespace
             b == CHOOSE i \in 1..Len(s) :
                      s[i] \notin Whitespace /\ \A j \in (i+1)..Len(s) : s[j] \in Whitespace
         IN  SubSeq(s, a, b)

\* a plausible slip: only the empty text is rejected, blank text is not
source_is_missing_untrimmed(source_code) == source_code = <<>>

\* source_code.trim().is_empty()
source_is_missing(source_code) == trim(source_code) = <<>>

\* a field of a JSON object: absent, a value that is no string, or a string
JAbsent == [t |-> "absent"]
JOther  == [t |-> "other"]
JStr(s) == [t |-> "str", s |-> s]

\* Value::get(key).and_then(as_str).unwrap_or(default)
str_or(field, default) == IF field.t = "str" THEN field.s ELSE default

\* Option::or_else on two fields: the second is looked at only when the
\* first is absent
or_else(first, second) == IF first.t # "absent" THEN first ELSE second

Ok(v)  == [ok |-> TRUE, v |-> v]
Err(kind, what) == [ok |-> FALSE, kind |-> kind, what |-> what]

\* a JSON text: its layout and the value it denotes ("garbage" denotes none)
JsonText(fmt, json) == [fmt |-> fmt, json |-> json]
RawText(text) == [fmt |-> "raw", text |-> text]
PartialText == [fmt |-> "partial"]

\* serde_json::from_str
from_str(t) ==
    IF t.fmt \in {"compact", "pretty"} THEN Ok(t.json)
    ELSE Err("Input", "invalid_json")

\* serde_json::to_string_pretty
to_string_pretty(v) == JsonText("pretty", v)

-----------------------------------------------------------------------------
(* Paths: whether rooted, and the components.                              *)

RECURSIVE SplitOn(_, _)
SplitOn(s, c) ==
    LET sp == split_once(s, c) IN
    IF sp.some THEN <<sp.v[1]>> \o SplitOn(sp.v[2], c) ELSE <<s>>

\* Path::components: empty components and "." are dropped
Components(s) == SelectSeq(SplitOn(s, "/"), LAMBDA c : c # <<>> /\ c # <<".">>)

\* PathBuf::from
PathFrom(s) == [abs |-> starts_with(s, <<"/">>), comps |-> Components(s)]

\* Path::join: a rooted argument replaces the base
join(base, s) ==
    IF starts_with(s, <<"/">>) THEN PathFrom(s)
    ELSE [abs |-> base.abs, comps |-> base.comps \o Components(s)]

\* Path::parent
parent(path) ==
    IF path.comps = <<>> THEN None
    ELSE Some([abs |-> path.abs, comps |-> SubSeq(path.comps, 1, Len(path.comps) - 1)])

\* a directory and every ancestor of it
Ancestors(path) ==
    {[abs |-> path.abs, comps |-> SubSeq(path.comps, 1, k)] : k \in 0..Len(path.comps)}

IsUnder(path, dir) ==
    /\ path.abs = dir.abs
    /\ Len(path.comps) > Len(dir.comps)
    /\ SubSeq(path.comps, 1, Len(dir.comps)) = dir.comps

\* Path::exists
exists(path) == path \in dirs \/ path \in DOMAIN files

S_out          == <<"o","u","t">>
S_fn           == <<"f","n">>
S_payload_json == <<"p","a","y","l","o","a","d",".","j","s","o","n">>
S_meta_json    == <<"f","u","n","c","t","i","o","n",".","m","e","t","a",".","j","s","o","n">>
S_good_json    == <<"g","o","o","d",".","j","s","o","n">>
S_bad_json     == <<"b","a","d",".","j","s","o","n">>
S_gone_json    == <<"g","o","n","e",".","j","s","o","n">>
S_old_py       == <<"o","l","d",".","p","y">>

-----------------------------------------------------------------------------
(* Evaluations of the pure functions on bounded inputs.                    *)

RECURSIVE Flatten(_)
Flatten(ss) == IF ss = <<>> THEN <<>> ELSE Head(ss) \o Flatten(Tail(ss))

RECURSIVE JoinWith(_, _)
JoinWith(ss, sep) ==
    IF ss = <<>> THEN <<>>
    ELSE IF Len(ss) = 1 THEN ss[1]
    ELSE ss[1] \o <<sep>> \o JoinWith(Tail(ss), sep)

SeqsUpTo(S, lo, hi) == UNION {[1..k -> S] : k \in lo..hi}

\* the pieces runtime strings are assembled from: the keywords in several
\* letter cases, pieces that form a keyword only when put together, and
\* pieces that belong to no keyword
RuntimeTokens ==
    { S_python, <<"P","y","T","h","O","n">>,
      S_node, <<"N","o","D","e">>,
      S_java, <<"J","A","V","A">>,
      <<"s","c","r","i","p","t">>, <<"T","y","p","e">>,
      S_go, <<"G","o">>, <<"l","a","n","g">>, <<":">>,
      S_rust, <<"R","U","S","T">>,
      <<"x">> }

RuntimeInputs == {Flatten(ts) : ts \in SeqsUpTo(RuntimeTokens, 0, MaxRuntimeParts)}

S_python311 == <<"p","y","t","h","o","n",":","3",".","1","1">>
S_node18    == <<"n","o","d","e","1","8">>
S_go122     == <<"g","o","1",".","2","2">>
S_gocolon122 == <<"g","o",":","1",".","2","2">>
S_unknown   == <<"u","n","k","n","o","w","n">>
S_handler   == <<"h","a","n","d","l","e","r">>
S_pkg       == <<"p","k","g">>
S_sub       == <<"s","u","b">>
S_main      == <<"m","a","i","n">>
S_Handle    == <<"H","a","n","d","l","e">>
S_slash_etc == <<"/","e","t","c">>

\* the runtimes the layout resolver is evaluated on: each family, in the
\* spellings the documentation uses
PathRuntimes ==
    { S_python311, S_node18, S_go122, S_gocolon122, S_go,
      <<"R","u","s","t">>, <<"j","a","v","a","1","7">>, S_javascript, S_unknown }

\* the dot-free segments handler strings are assembled from
HandlerSegments == { <<>>, S_handler, S_pkg, S_sub, S_main, S_Handle, S_slash_etc }

HandlerSegLists == SeqsUpTo(HandlerSegments, 1, MaxSegs)

ClIdle(op, rt, segs) ==
    [op |-> op, runtime |-> rt, segs |-> segs, handler |-> JoinWith(segs, "."),
     family |-> "none", path |-> <<>>]

InitCl ==
    \/ \E rt \in RuntimeInputs : cl = ClIdle("classify", rt, <<S_handler>>)
    \/ \E rt \in PathRuntimes, segs \in HandlerSegLists : cl = ClIdle("resolve", rt, segs)

\* one call of detect_runtime_family
Classify ==
    /\ cl.op = "classify"
    /\ cl' = [cl EXCEPT !.op = "classified",
                        !.family = detect_runtime_family(cl.runtime)]
    /\ UNCHANGED <<pull, dirs, files, procs>>

\* one call of source_file_rel_path
ResolvePath ==
    /\ cl.op = "resolve"
    /\ cl' = [cl EXCEPT !.op = "resolved",
                        !.family = detect_runtime_family(cl.runtime),
                        !.path = source_file_rel_path(cl.runtime, cl.handler)]
    /\ UNCHANGED <<pull, dirs, files, procs>>

NextPure == Classify \/ ResolvePath

-----------------------------------------------------------------------------
(* The keyword rules as the documentation words them: a keyword occurs     *)
(* "in any letter case" when each of its letters occurs in either case.    *)

SameLetter(c, k) == c = k \/ \E i \in 1..26 : LowerChars[i] = k /\ UpperChars[i] = c

WordAt(s, i, w) ==
    /\ i >= 1
    /\ i + Len(w) - 1 <= Len(s)
    /\ \A j \in 1..Len(w) : SameLetter(s[i + j - 1], w[j])

HasWord(s, w) == \E i \in 1..Len(s) : WordAt(s, i, w)

PythonRule(s) == HasWord(s, S_python)
NodeRule(s)   == HasWord(s, S_node) \/ HasWord(s, S_javascript) \/ HasWord(s, S_typescript)
GoRule(s)     == \/ Len(s) = 2 /\ WordAt(s, 1, S_go)
                 \/ WordAt(s, 1, S_go_colon)
                 \/ HasWord(s, S_golang)
RustRule(s)   == HasWord(s, S_rust)
JavaRule(s)   == HasWord(s, S_java)

RulesHolding(s) ==
    {f \in RuntimeFamily :
        \/ f = "Python" /\ PythonRule(s)
        \/ f = "Node"   /\ NodeRule(s)
        \/ f = "Go"     /\ GoRule(s)
        \/ f = "Rust"   /\ RustRule(s)
        \/ f = "Java"   /\ JavaRule(s)}

HasUpper(s) == \E i \in 1..Len(s), k \in 1..26 : s[i] = UpperChars[k]

\* C7: every runtime string containing "python" in any letter case is
\* classified Python, every runtime string matching no keyword rule is
\* classified Unknown, and every classification yields a family.
C7_PythonAndUnknown ==
    cl.op = "classified" =>
        /\ cl.family \in RuntimeFamily
        /\ PythonRule(cl.runtime) => cl.family = "Python"
        /\ RulesHolding(cl.runtime) = {} => cl.family = "Unknown"

C7_Witness ==
    /\ cl.op = "classified"
    /\ PythonRule(cl.runtime)
    /\ HasUpper(cl.runtime)
    /\ NodeRule(cl.runtime)

\* C8 as stated: each of the four other rules alone decides its family, and
\* no string satisfies the rules of two families.
C8_AsStated ==
    cl.op = "classified" =>
        /\ NodeRule(cl.runtime) => cl.family = "Node"
        /\ GoRule(cl.runtime)   => cl.family = "Go"
        /\ RustRule(cl.runtime) => cl.family = "Rust"
        /\ JavaRule(cl.runtime) => cl.family = "Java"
        /\ Cardinality(RulesHolding(cl.runtime)) <= 1

\* C8 (amended): the rules overlap and the first match wins in the order
\* Python, Node, Go, Rust, Java: a string satisfying a family's rule is
\* classified into that family when it satisfies no earlier family's rule.
C8_FirstMatchWins ==
    cl.op = "classified" =>
        LET s == cl.runtime IN
        /\ NodeRule(s) /\ ~PythonRule(s) => cl.family = "Node"
        /\ GoRule(s) /\ ~PythonRule(s) /\ ~NodeRule(s) => cl.family = "Go"
        /\ RustRule(s) /\ ~PythonRule(s) /\ ~NodeRule(s) /\ ~GoRule(s) => cl.family = "Rust"
        /\ JavaRule(s) /\ ~PythonRule(s) /\ ~NodeRule(s) /\ ~GoRule(s) /\ ~RustRule(s)
               => cl.family = "Java"

C8_Witness ==
    /\ cl.op = "classified"
    /\ JavaRule(cl.runtime)
    /\ NodeRule(cl.runtime)
    /\ ~PythonRule(cl.runtime)
    /\ HasUpper(cl.runtime)

S_pkg_sub_py == <<"p","k","g","/","s","u","b",".","p","y">>

\* C9 as stated: the three documented examples of sourceRelativePath.
C9_AsStated ==
    cl.op = "resolved" =>
        /\ cl.runtime = S_python311 /\ cl.segs = <<S_pkg, S_sub, S_handler>>
               => cl.path = S_pkg_sub_py
        /\ cl.runtime = S_node18 /\ cl.segs = <<S_handler>> => cl.path = S_index_js
        /\ cl.runtime = S_go122 /\ cl.segs = <<S_main, S_Handle>> => cl.path = S_main_go

\* C9 (amended): ("python:3.11", "pkg.sub.handler") gives "pkg/sub.py" and
\* ("node18", "handler") gives "index.js"; "go1.22" satisfies no Go rule, so
\* ("go1.22", "main.Handle") gives "function.txt", while
\* ("go:1.22", "main.Handle") gives "main.go".
C9_Examples ==
    cl.op = "resolved" =>
        /\ cl.runtime = S_python311 /\ cl.segs = <<S_pkg, S_sub, S_handler>>
               => cl.path = S_pkg_sub_py
        /\ cl.runtime = S_node18 /\ cl.segs = <<S_handler>> => cl.path = S_index_js
        /\ cl.runtime = S_go122 /\ cl.segs = <<S_main, S_Handle>>
               => cl.path = S_function_txt
        /\ cl.runtime = S_gocolon122 /\ cl.segs = <<S_main, S_Handle>>
               => cl.path = S_main_go

C9_Witness ==
    /\ cl.op = "resolved"
    /\ cl.runtime = S_go122
    /\ cl.segs = <<S_main, S_Handle>>

\* the module path worded on the handler's segments: all segments but the
\* last, joined by '/'; it is empty exactly when the text before the last
\* dot is empty
ModuleSegs(segs) == SubSeq(segs, 1, Len(segs) - 1)
HasModulePath(segs) == JoinWith(ModuleSegs(segs), ".") # <<>>

\* C10: the relative source path by family: Python and Node give the module
\* path with '/' for '.' plus ".py" / ".js" when the module path is
\* non-empty and "main.py" / "index.js" otherwise; Go, Rust, Java and
\* Unknown give their fixed file name whatever the handler.
C10_PathByFamily ==
    cl.op = "resolved" =>
        LET modpath == JoinWith(ModuleSegs(cl.segs), "/") IN
        CASE cl.family = "Python" ->
                 cl.path = IF HasModulePath(cl.segs) THEN modpath \o S_dot_py ELSE S_main_py
          [] cl.family = "Node" ->
                 cl.path = IF HasModulePath(cl.segs) THEN modpath \o S_dot_js ELSE S_index_js
          [] cl.family = "Go"      -> cl.path = S_main_go
          [] cl.family = "Rust"    -> cl.path = S_src_main_rs
          [] cl.family = "Java"    -> cl.path = S_Main_java
          [] cl.family = "Unknown" -> cl.path = S_function_txt
          [] OTHER -> FALSE

C10_Witness ==
    /\ cl.op = "resolved"
    /\ cl.family = "Node"
    /\ Len(cl.segs) = 3
    /\ cl.segs[1] = <<>>
    /\ cl.segs[2] # <<>>

-----------------------------------------------------------------------------
(* The pull orchestrator: state of one call of run_pull.                   *)

Running == [ok |-> FALSE, kind |-> "none", what |-> "running", detail |-> <<>>]
Done    == [ok |-> TRUE, kind |-> "none", what |-> "unit", detail |-> <<>>]
Error(kind, what) == [ok |-> FALSE, kind |-> kind, what |-> what, detail |-> <<>>]
ErrorWith(kind, what, detail) == [ok |-> FALSE, kind |-> kind, what |-> what, detail |-> detail]

Cwd    == [abs |-> FALSE, comps |-> <<>>]
Root   == [abs |-> TRUE, comps |-> <<>>]

NoInfo     == [runtime |-> JAbsent, handler |-> JAbsent]
NoCode     == [source_code |-> JAbsent, code |-> JAbsent]
NoMetadata == [name |-> <<>>, runtime |-> <<>>, handler |-> <<>>, source_file |-> <<>>,
               payload_file |-> <<>>, function |-> NoInfo]
NoOutcome  == [tag |-> "none"]
\* run_local_test was not called
NoCall     == [runtime |-> <<>>, handler |-> <<>>, source_path |-> Cwd, payload_path |-> Cwd]

\* a plausible slip: the metadata file is written before the source file
Flow_meta_first ==
    <<"fetch_fn", "fetch_code", "extract", "guard", "mkdir", "resolve",
      "write_meta", "write_source", "parse_payload", "write_payload", "local_test">>

\* a plausible slip: the payload is resolved before anything is written
Flow_payload_first ==
    <<"fetch_fn", "fetch_code", "extract", "guard", "parse_payload", "mkdir", "resolve",
      "write_source", "write_payload", "write_meta", "local_test">>

\* a plausible slip: the local test is run before the metadata file is written
Flow_test_before_meta ==
    <<"fetch_fn", "fetch_code", "extract", "guard", "mkdir", "resolve",
      "write_source", "parse_payload", "write_payload", "local_test", "write_meta">>

\* the steps of run_pull, in program order
Flow ==
    <<"fetch_fn", "fetch_code", "extract", "guard", "mkdir", "resolve",
      "write_source", "parse_payload", "write_payload", "write_meta", "local_test">>

StepAfter(pc) == Flow[(CHOOSE i \in 1..Len(Flow) : Flow[i] = pc) + 1]

\* base_dir.join(&name)
FnDir(r) == join(PathFrom(r.output_dir), r.name)
\* fn_dir.join(&source_rel_path)
SourcePath(r) == join(FnDir(r), r.source_rel_path)
\* fn_dir.join("payload.json")
PayloadPath(r) == join(FnDir(r), S_payload_json)
\* fn_dir.join("function.meta.json")
MetadataPath(r) == join(FnDir(r), S_meta_json)

\* a plausible slip: the error is recorded but the flow is not left
FailWith_continues(r, e) == [r EXCEPT !.result = e]

FailWith(r, e) == [r EXCEPT !.pc = "done", !.result = e]

\* the inline payload and payload file arguments a pull is called with
GoodInline == JsonText("compact", "obj_inline")
BadInline  == JsonText("garbage", "none")
PayloadArgs ==
    { <<None, None>>,
      <<Some(GoodInline), None>>,
      <<Some(BadInline), None>>,
      <<None, Some(S_good_json)>>,
      <<None, Some(S_bad_json)>>,
      <<None, Some(S_gone_json)>>,
      <<Some(GoodInline), Some(S_bad_json)>> }

NewPull(force, test, pa, fs) ==
    [pc |-> "fetch_fn", name |-> S_fn, output_dir |-> S_out,
     force |-> force, test |-> test, payload |-> pa[1], payload_file |-> pa[2],
     fn_info |-> NoInfo, code_info |-> NoCode, runtime |-> <<>>, handler |-> <<>>, source_code |-> <<>>,
     source_rel_path |-> <<>>, payload_value |-> "none", metadata |-> NoMetadata,
     call |-> NoCall, family |-> "none", cands |-> <<>>, tool |-> "none", outcome |-> NoOutcome,
     local_test_status |-> "not-run", summary |-> "none", result |-> Running,
     fs0 |-> fs]

\* the filesystem a pull can find: the payload files of the operator, and
\* the target directory absent, present and empty, or left by an earlier pull
OutDir   == PathFrom(S_out)
OutFnDir == join(OutDir, S_fn)
UserFiles ==
    (PathFrom(S_good_json) :> JsonText("compact", "obj_file"))
    @@ (PathFrom(S_bad_json) :> JsonText("garbage", "none"))
StaleFiles ==
    (join(OutFnDir, S_old_py) :> RawText(<<"o","l","d">>))
    @@ (join(OutFnDir, S_payload_json) :> JsonText("pretty", "obj_old"))
    @@ (join(OutFnDir, S_meta_json) :> JsonText("pretty", [NoMetadata EXCEPT !.name = S_fn]))
FsInits ==
    { [dirs |-> {Cwd, Root}, files |-> UserFiles],
      [dirs |-> {Cwd, Root, OutDir, OutFnDir}, files |-> UserFiles],
      [dirs |-> {Cwd, Root, OutDir, OutFnDir}, files |-> StaleFiles @@ UserFiles] }

ClOff == [op |-> "off", runtime |-> <<>>, segs |-> <<>>, handler |-> <<>>,
          family |-> "none", path |-> <<>>]

Init ==
    /\ \E fs \in FsInits, force \in BOOLEAN, test \in BOOLEAN, pa \in PayloadArgs :
           /\ dirs = fs.dirs
           /\ files = fs.files
           /\ pull = [p \in {1} |-> NewPull(force, test, pa, fs)]
    /\ procs = <<>>
    /\ cl = ClOff

\* the state of the pure-function evaluations: no pull runs
InitPure ==
    /\ InitCl
    /\ dirs = {Cwd, Root}
    /\ files = UserFiles
    /\ pull = [p \in {1} |->
                  [NewPull(FALSE, FALSE, <<None, None>>, [dirs |-> {Cwd, Root}, files |-> UserFiles])
                       EXCEPT !.pc = "off"]]
    /\ procs = <<>>

-----------------------------------------------------------------------------
(* The remote collaborator's answers.                                      *)

S_pkg_sub_handler == <<"p","k","g",".","s","u","b",".","h","a","n","d","l","e","r">>
S_main_Handle     == <<"m","a","i","n",".","H","a","n","d","l","e">>

RemoteRuntimes ==
    { JAbsent, JOther, JStr(S_python311), JStr(S_node18), JStr(S_go),
      JStr(<<"R","u","s","t">>), JStr(<<"j","a","v","a","1","7">>), JStr(S_go122) }
S_dot_pkg_handler == <<".","p","k","g",".","h","a","n","d","l","e","r">>
RemoteHandlers ==
    { JAbsent, JStr(S_pkg_sub_handler), JStr(S_main_Handle), JStr(S_dot_pkg_handler) }
FnInfos == [runtime : RemoteRuntimes, handler : RemoteHandlers]

SourceA == <<"A","\n">>
SourceB == <<" ","B">>
CodeInfos ==
    [source_code : {JAbsent, JOther, JStr(<<>>), JStr(<<" "," "," ">>), JStr(SourceA)},
     code        : {JAbsent, JStr(<<" ","\n","\t">>), JStr(SourceB)}]

-----------------------------------------------------------------------------
(* run_pull, step by step.                                                 *)

\* client.get("/functions/{name}"), lines 752: the record, or a remote error
FetchFn(p) ==
    LET r == pull[p] IN
    /\ r.pc = "fetch_fn"
    /\ \/ \E info \in FnInfos :
              pull' = [pull EXCEPT ![p] = [r EXCEPT !.pc = StepAfter(r.pc), !.fn_info = info]]
       \/ pull' = [pull EXCEPT ![p] = FailWith(r, Error("Http", "fetch_function"))]
    /\ UNCHANGED <<dirs, files, procs, cl>>

\* client.get("/functions/{name}/code") and the extraction of runtime,
\* handler and source text from the two answers
FetchCode(p) ==
    LET r == pull[p] IN
    /\ r.pc = "fetch_code"
    /\ \/ \E code_info \in CodeInfos :
              pull' = [pull EXCEPT ![p] =
                          [r EXCEPT !.pc = StepAfter(r.pc),
                                    !.code_info = code_info,
                                    !.runtime = str_or(r.fn_info.runtime, S_unknown),
                                    !.handler = str_or(r.fn_info.handler, S_handler),
                                    !.source_code =
                                        str_or(or_else(code_info.source_code, code_info.code),
                                               <<>>)]]
       \/ pull' = [pull EXCEPT ![p] = FailWith(r, Error("Http", "fetch_code"))]
    /\ UNCHANGED <<dirs, files, procs, cl>>

\* the empty-source check
Extract(p) ==
    LET r == pull[p] IN
    /\ r.pc = "extract"
    /\ pull' = [pull EXCEPT ![p] =
                   IF source_is_missing(r.source_code)
                   THEN FailWith(r, Error("Input", "no_source_code"))
                   ELSE [r EXCEPT !.pc = StepAfter(r.pc)]]
    /\ UNCHANGED <<dirs, files, procs, cl>>

\* a plausible slip: the overwrite flag is not consulted the right way round
guard_blocks_inverted(present, force) == present /\ force

\* fn_dir.exists() && !force
guard_blocks(present, force) == present /\ ~force

\* a variation: the guard also stops a pull while another pull is at work on
\* the same directory
Guard_exclusive(p) ==
    LET r == pull[p]
        busy == \E q \in DOMAIN pull \ {p} :
                    /\ FnDir(pull[q]) = FnDir(r)
                    /\ pull[q].pc \in {"mkdir", "resolve", "write_source", "parse_payload",
                                       "write_payload", "write_meta"}
    IN
    /\ r.pc = "guard"
    /\ pull' = [pull EXCEPT ![p] =
                   IF guard_blocks(exists(FnDir(r)) \/ busy, r.force)
                   THEN FailWith(r, Error("Input", "directory_exists"))
                   ELSE [r EXCEPT !.pc = StepAfter(r.pc), !.code_info = NoCode]]
    /\ UNCHANGED <<dirs, files, procs, cl>>

\* the existence guard (code_info is not read after this point and is dropped)
Guard(p) ==
    LET r == pull[p] IN
    /\ r.pc = "guard"
    /\ pull' = [pull EXCEPT ![p] =
                   IF guard_blocks(exists(FnDir(r)), r.force)
                   THEN FailWith(r, Error("Input", "directory_exists"))
                   ELSE [r EXCEPT !.pc = StepAfter(r.pc), !.code_info = NoCode]]
    /\ UNCHANGED <<dirs, files, procs, cl>>

\* a plausible slip: an existing target directory is emptied before it is reused
MkDir_clearing(p) ==
    LET r == pull[p] IN
    /\ r.pc = "mkdir"
    /\ dirs' = dirs \cup Ancestors(FnDir(r))
    /\ files' = [path \in {q \in DOMAIN files : ~IsUnder(q, FnDir(r))} |-> files[path]]
    /\ pull' = [pull EXCEPT ![p] = [r EXCEPT !.pc = StepAfter(r.pc)]]
    /\ UNCHANGED <<procs, cl>>

\* std::fs::create_dir_all(&fn_dir): every missing ancestor is created, or the
\* call fails having created the ancestors down to some depth
MkDir(p) ==
    LET r == pull[p] IN
    /\ r.pc = "mkdir"
    /\ \/ /\ dirs' = dirs \cup Ancestors(FnDir(r))
          /\ pull' = [pull EXCEPT ![p] = [r EXCEPT !.pc = StepAfter(r.pc)]]
       \/ /\ FnDir(r) \notin dirs
          /\ \E k \in 0..(Len(FnDir(r).comps) - 1) :
                 dirs' = dirs \cup {a \in Ancestors(FnDir(r)) : Len(a.comps) <= k}
          /\ pull' = [pull EXCEPT ![p] = FailWith(r, Error("Io", "create_dir_all"))]
    /\ UNCHANGED <<files, procs, cl>>

\* source_file_rel_path and create_dir_all(source_path.parent())
Resolve(p) ==
    LET r  == pull[p]
        r2 == [r EXCEPT !.source_rel_path = source_file_rel_path(r.runtime, r.handler)]
        par == parent(SourcePath(r2))
    IN
    /\ r.pc = "resolve"
    /\ \/ /\ dirs' = IF par.some THEN dirs \cup Ancestors(par.v) ELSE dirs
          /\ pull' = [pull EXCEPT ![p] = [r2 EXCEPT !.pc = StepAfter(r.pc)]]
       \/ /\ par.some
          /\ par.v \notin dirs
          /\ UNCHANGED dirs
          /\ pull' = [pull EXCEPT ![p] = FailWith(r2, Error("Io", "create_dir_all"))]
    /\ UNCHANGED <<files, procs, cl>>

\* std::fs::write: the file holds the content, or the call fails and leaves
\* the file as it was or created and incompletely written
Writable(path) ==
    /\ parent(path).some
    /\ parent(path).v \in dirs
    /\ path \notin dirs

\* a plausible slip: the file is opened for appending, so that what it held
\* stays in front of what is written
Appended(old, content) ==
    IF old.fmt = "raw" /\ content.fmt = "raw" THEN RawText(old.text \o content.text)
    ELSE JsonText("garbage", "none")

fs_write_appending(p, r, path, content) ==
    \/ /\ Writable(path)
       /\ files' = (path :> IF path \in DOMAIN files THEN Appended(files[path], content)
                            ELSE content) @@ files
       /\ pull' = [pull EXCEPT ![p] = [r EXCEPT !.pc = StepAfter(r.pc)]]
    \/ /\ UNCHANGED files
       /\ pull' = [pull EXCEPT ![p] = FailWith(r, Error("Io", "write"))]
    \/ /\ Writable(path)
       /\ files' = (path :> PartialText) @@ files
       /\ pull' = [pull EXCEPT ![p] = FailWith(r, Error("Io", "write"))]

fs_write(p, r, path, content) ==
    \/ /\ Writable(path)
       /\ files' = (path :> content) @@ files
       /\ pull' = [pull EXCEPT ![p] = [r EXCEPT !.pc = StepAfter(r.pc)]]
    \/ /\ UNCHANGED files
       /\ pull' = [pull EXCEPT ![p] = FailWith(r, Error("Io", "write"))]
    \/ /\ Writable(path)
       /\ files' = (path :> PartialText) @@ files
       /\ pull' = [pull EXCEPT ![p] = FailWith(r, Error("Io", "write"))]

\* std::fs::write(&source_path, source_code)
WriteSource(p) ==
    LET r == pull[p] IN
    /\ r.pc = "write_source"
    /\ fs_write(p, r, SourcePath(r), RawText(r.source_code))
    /\ UNCHANGED <<dirs, procs, cl>>

\* a plausible slip: the payload file is looked at before the inline string
parse_json_payload_file_first(payload, payload_file) ==
    IF payload_file.some
    THEN LET path == PathFrom(payload_file.v) IN
         IF path \notin DOMAIN files THEN Err("Input", "cannot_read_file")
         ELSE LET v == from_str(files[path]) IN
              IF v.ok THEN v ELSE Err("Input", "invalid_json_in_file")
    ELSE IF payload.some
    THEN LET v == from_str(payload.v) IN
         IF v.ok THEN v ELSE Err("Input", "invalid_json_payload")
    ELSE Ok("obj_empty")

parse_json_payload(payload, payload_file) ==
    IF payload.some
    THEN LET v == from_str(payload.v) IN
         IF v.ok THEN v ELSE Err("Input", "invalid_json_payload")
    ELSE IF payload_file.some
    THEN LET path == PathFrom(payload_file.v) IN
         IF path \notin DOMAIN files THEN Err("Input", "cannot_read_file")
         ELSE LET v == from_str(files[path]) IN
              IF v.ok THEN v ELSE Err("Input", "invalid_json_in_file")
    ELSE Ok("obj_empty")

\* parse_json_payload(payload, payload_file)?
ParsePayload(p) ==
    LET r == pull[p]
        v == parse_json_payload(r.payload, r.payload_file)
    IN
    /\ r.pc = "parse_payload"
    /\ pull' = [pull EXCEPT ![p] =
                   IF v.ok THEN [r EXCEPT !.pc = StepAfter(r.pc), !.payload_value = v.v]
                   ELSE FailWith(r, Error(v.kind, v.what))]
    /\ UNCHANGED <<dirs, files, procs, cl>>

\* std::fs::write(&payload_path, to_string_pretty(&payload_value))
WritePayload(p) ==
    LET r == pull[p] IN
    /\ r.pc = "write_payload"
    /\ fs_write(p, r, PayloadPath(r), to_string_pretty(r.payload_value))
    /\ UNCHANGED <<dirs, procs, cl>>

\* a plausible slip: the function record is left out of the metadata
metadata_of_without_record(r) ==
    [name |-> r.name, runtime |-> r.runtime, handler |-> r.handler,
     source_file |-> r.source_rel_path, payload_file |-> S_payload_json,
     function |-> NoInfo]

\* the metadata record, json!({...})
metadata_of(r) ==
    [name |-> r.name, runtime |-> r.runtime, handler |-> r.handler,
     source_file |-> r.source_rel_path, payload_file |-> S_payload_json,
     function |-> r.fn_info]

\* the metadata record and std::fs::write(&metadata_path, ...)
WriteMeta(p) ==
    LET r == pull[p]
        metadata == metadata_of(r)
        r2 == [r EXCEPT !.metadata = metadata]
    IN
    /\ r.pc = "write_meta"
    /\ fs_write(p, r2, MetadataPath(r), to_string_pretty(metadata))
    /\ UNCHANGED <<dirs, procs, cl>>

-----------------------------------------------------------------------------
(* The toolchain locator and the local test dispatcher.                    *)

\* a plausible slip: two candidate lists are written in the other order
Candidates_swapped(family) ==
    CASE family = "Python" -> <<"python", "python3">>
      [] family = "Node"   -> <<"node">>
      [] family = "Go"     -> <<"go">>
      [] family = "Rust"   -> <<"rustc", "cargo">>
      [] family = "Java"   -> <<"java">>
      [] OTHER             -> <<>>

\* the candidate executables ensure_toolchain hands to find_available_binary
Candidates(family) ==
    CASE family = "Python" -> <<"python3", "python">>
      [] family = "Node"   -> <<"node">>
      [] family = "Go"     -> <<"go">>
      [] family = "Rust"   -> <<"cargo", "rustc">>
      [] family = "Java"   -> <<"java">>
      [] OTHER             -> <<>>

\* a plausible slip: the probe's exit status is read the wrong way round
probe_accepts_failure(status) == status = "exit_nonzero"

\* a plausible slip: a candidate that could be spawned is taken as available,
\* whatever its exit code
probe_accepts_spawned(status) == status # "spawn_error"

\* status.map(|s| s.success()).unwrap_or(false)
probe_accepts(status) == status = "exit_zero"

ProbeStatuses == {"exit_zero", "exit_nonzero", "spawn_error"}

\* a plausible slip: every family with a toolchain is run by a driver
family_has_driver_all(family) == family # "Unknown"

\* the families run_local_test runs through a driver
family_has_driver(family) == family \in {"Python", "Node"}

\* the outcome of the families run_local_test does not run
SkippedOutcome(r) ==
    IF r.family \in {"Go", "Rust", "Java"}
    THEN [tag |-> "Skipped", reason |-> "toolchain_installed", tool |-> r.tool,
          dir |-> parent(SourcePath(r))]
    ELSE [tag |-> "Skipped", reason |-> "runtime_not_recognized", tool |-> "none",
          dir |-> None]

\* what a driver subprocess can do: not start, or exit with its two streams
DriverResults ==
    { [status |-> "spawn_error", stdout |-> <<>>, stderr |-> <<>>],
      [status |-> "exit_zero", stdout |-> <<" ","{","}","\n">>, stderr |-> <<>>],
      [status |-> "exit_zero", stdout |-> <<>>, stderr |-> <<"w">>],
      [status |-> "exit_nonzero", stdout |-> <<"x">>, stderr |-> <<"\n","E"," ">>],
      [status |-> "exit_nonzero", stdout |-> <<>>, stderr |-> <<" ","\n">>] }

S_unknown_error == <<"u","n","k","n","o","w","n"," ","e","r","r","o","r">>

\* a plausible slip: the Unknown family is handed to the locator like any
\* other family instead of failing at once
LocalTest_locates_unknown(p) ==
    LET r == pull[p]
        family == detect_runtime_family(r.metadata.runtime)
    IN
    /\ r.pc = "local_test"
    /\ pull' = [pull EXCEPT ![p] =
                   IF ~r.test THEN [r EXCEPT !.pc = "summary"]
                   ELSE [r EXCEPT !.pc = "probe", !.family = family,
                                  !.call = [runtime |-> r.metadata.runtime,
                                            handler |-> r.metadata.handler,
                                            source_path |-> SourcePath(r),
                                            payload_path |-> PayloadPath(r)],
                                  !.cands = IF family = "Unknown" THEN <<"sh">>
                                            ELSE Candidates(family)]]
    /\ UNCHANGED <<dirs, files, procs, cl>>

\* a plausible slip: the local test is given the function record's own fields,
\* without the defaults that went into the metadata
LocalTest_raw_inputs(p) ==
    LET r == pull[p]
        call == [runtime |-> str_or(r.fn_info.runtime, <<>>),
                 handler |-> str_or(r.fn_info.handler, <<>>),
                 source_path |-> SourcePath(r), payload_path |-> PayloadPath(r)]
        family == detect_runtime_family(call.runtime)
    IN
    /\ r.pc = "local_test"
    /\ pull' = [pull EXCEPT ![p] =
                   IF ~r.test THEN [r EXCEPT !.pc = "summary"]
                   ELSE IF family = "Unknown"
                   THEN FailWith([r EXCEPT !.family = family, !.call = call],
                                 Error("Input", "runtime_not_recognized"))
                   ELSE [r EXCEPT !.pc = "probe", !.family = family, !.call = call,
                                  !.cands = Candidates(family)]]
    /\ UNCHANGED <<dirs, files, procs, cl>>

\* `if test`, the call of run_local_test with the metadata's runtime and
\* handler and the two paths, and its head: the family and the Unknown arm
\* of ensure_toolchain
LocalTest(p) ==
    LET r == pull[p]
        call == [runtime |-> r.metadata.runtime, handler |-> r.metadata.handler,
                 source_path |-> SourcePath(r), payload_path |-> PayloadPath(r)]
        family == detect_runtime_family(call.runtime)
    IN
    /\ r.pc = "local_test"
    /\ pull' = [pull EXCEPT ![p] =
                   IF ~r.test THEN [r EXCEPT !.pc = "summary"]
                   ELSE IF family = "Unknown"
                   THEN FailWith([r EXCEPT !.family = family, !.call = call],
                                 Error("Input", "runtime_not_recognized"))
                   ELSE [r EXCEPT !.pc = "probe", !.family = family, !.call = call,
                                  !.cands = Candidates(family)]]
    /\ UNCHANGED <<dirs, files, procs, cl>>

\* find_available_binary: one candidate is probed with --version
Probe(p) ==
    LET r == pull[p] IN
    /\ r.pc = "probe"
    /\ r.cands # <<>>
    /\ \E status \in ProbeStatuses :
           /\ procs' = Append(procs, [kind |-> "probe", by |-> p, bin |-> Head(r.cands),
                                     status |-> status])
           /\ pull' = [pull EXCEPT ![p] =
                          IF probe_accepts(status)
                          THEN [r EXCEPT !.pc = "dispatch", !.tool = Head(r.cands)]
                          ELSE [r EXCEPT !.cands = Tail(r.cands)]]
    /\ UNCHANGED <<dirs, files, cl>>

\* find_available_binary returns None: ensure_toolchain's missing_error
ProbeExhausted(p) ==
    LET r == pull[p] IN
    /\ r.pc = "probe"
    /\ r.cands = <<>>
    /\ pull' = [pull EXCEPT ![p] = FailWith(r, Error("Input", "missing_toolchain"))]
    /\ UNCHANGED <<dirs, files, procs, cl>>

\* a plausible slip: every local test that returns is reported as executed
Dispatch_marks_executed(p) ==
    LET r == pull[p] IN
    /\ r.pc = "dispatch"
    /\ pull' = [pull EXCEPT ![p] =
                   IF family_has_driver(r.family) THEN [r EXCEPT !.pc = "driver"]
                   ELSE [r EXCEPT !.pc = "summary", !.outcome = SkippedOutcome(r),
                                  !.local_test_status = "executed"]]
    /\ UNCHANGED <<dirs, files, procs, cl>>

\* run_local_test's match on the family
Dispatch(p) ==
    LET r == pull[p] IN
    /\ r.pc = "dispatch"
    /\ pull' = [pull EXCEPT ![p] =
                   IF family_has_driver(r.family) THEN [r EXCEPT !.pc = "driver"]
                   ELSE [r EXCEPT !.pc = "summary", !.outcome = SkippedOutcome(r),
                                  !.local_test_status = "skipped"]]
    /\ UNCHANGED <<dirs, files, procs, cl>>

\* path.dirname
dirname(path) == IF parent(path).some THEN parent(path).v ELSE path

\* path.resolve(base, s), up to the working directory
resolve(base, s) == join(base, s)

\* the module the Node runner requires: the source file when the handler has
\* no dot, otherwise the handler's module path, '.' turned into '/', plus
\* ".js", resolved against the directory of the source file
node_module_path(source_path, handler) ==
    LET parts == SplitOn(handler, ".") IN
    IF Len(parts) > 1
    THEN LET moduleName == JoinWith(SubSeq(parts, 1, Len(parts) - 1), ".") IN
         resolve(dirname(source_path), replace(moduleName, ".", "/") \o S_dot_js)
    ELSE source_path

\* the file the runner loads the function from: the Python runner loads the
\* source path it is given
driver_loads(r) ==
    IF r.family = "Node" THEN node_module_path(r.call.source_path, r.call.handler)
    ELSE r.call.source_path

\* a plausible slip: a driver that exits non-zero is launched a second time
Driver_retrying(p) ==
    LET r == pull[p]
        first == \A i \in 1..Len(procs) : procs[i].kind # "driver"
    IN
    /\ r.pc = "driver"
    /\ \E res \in DriverResults :
           /\ procs' = Append(procs, [kind |-> "driver", by |-> p, bin |-> r.tool,
                                     status |-> res.status, stdout |-> res.stdout,
                                     stderr |-> res.stderr, loads |-> driver_loads(r)])
           /\ pull' = [pull EXCEPT ![p] =
                CASE res.status = "spawn_error" -> FailWith(r, Error("Io", "spawn"))
                  [] res.status = "exit_nonzero" ->
                         IF first THEN r
                         ELSE FailWith(r, ErrorWith("Input", "local_test_failed",
                                                    IF trim(res.stderr) = <<>>
                                                    THEN S_unknown_error
                                                    ELSE trim(res.stderr)))
                  [] res.status = "exit_zero" ->
                         [r EXCEPT !.pc = "summary",
                                   !.outcome = [tag |-> "Executed", command |-> r.tool,
                                                output |-> trim(res.stdout)],
                                   !.local_test_status = "executed"]]
    /\ UNCHANGED <<dirs, files, cl>>

\* run_python_local_test / run_node_local_test: Command::output() and the
\* reading of its exit status
Driver(p) ==
    LET r == pull[p] IN
    /\ r.pc = "driver"
    /\ \E res \in DriverResults :
           /\ procs' = Append(procs, [kind |-> "driver", by |-> p, bin |-> r.tool,
                                     status |-> res.status, stdout |-> res.stdout,
                                     stderr |-> res.stderr, loads |-> driver_loads(r)])
           /\ pull' = [pull EXCEPT ![p] =
                CASE res.status = "spawn_error" -> FailWith(r, Error("Io", "spawn"))
                  [] res.status = "exit_nonzero" ->
                         FailWith(r, ErrorWith("Input", "local_test_failed",
                                               IF trim(res.stderr) = <<>>
                                               THEN S_unknown_error
                                               ELSE trim(res.stderr)))
                  [] res.status = "exit_zero" ->
                         [r EXCEPT !.pc = "summary",
                                   !.outcome = [tag |-> "Executed", command |-> r.tool,
                                                output |-> trim(res.stdout)],
                                   !.local_test_status = "executed"]]
    /\ UNCHANGED <<dirs, files, cl>>

\* the summary record and Ok(())
Summary(p) ==
    LET r == pull[p] IN
    /\ r.pc = "summary"
    /\ pull' = [pull EXCEPT ![p] =
                   [r EXCEPT !.pc = "done", !.result = Done,
                             !.summary = r.local_test_status]]
    /\ UNCHANGED <<dirs, files, procs, cl>>

Step(p) ==
    \/ FetchFn(p) \/ FetchCode(p) \/ Extract(p) \/ Guard(p) \/ MkDir(p) \/ Resolve(p)
    \/ WriteSource(p) \/ ParsePayload(p) \/ WritePayload(p) \/ WriteMeta(p)
    \/ LocalTest(p) \/ Probe(p) \/ ProbeExhausted(p) \/ Dispatch(p) \/ Driver(p)
    \/ Summary(p)

Next == \E p \in {1} : Step(p)

Spec == Init /\ [][Next]_vars

SpecPure == InitPure /\ [][NextPure]_vars

\* Two calls of run_pull for the same function and output directory, running
\* at once: each has received its two answers (the function may have been
\* changed between the fetches of the one and of the other) and is about to
\* test the target directory; their steps interleave freely.
TwoInfos ==
    { [runtime |-> JStr(S_python311), handler |-> JAbsent],
      [runtime |-> JStr(S_python311), handler |-> JStr(S_main_Handle)] }

AtGuard(force, fs, info, src) ==
    [NewPull(force, FALSE, <<None, None>>, fs) EXCEPT
         !.pc = "guard",
         !.fn_info = info,
         !.code_info = [source_code |-> JStr(src), code |-> JAbsent],
         !.runtime = str_or(info.runtime, S_unknown),
         !.handler = str_or(info.handler, S_handler),
         !.source_code = src]

InitTwo ==
    /\ \E fs \in FsInits, force \in [{1, 2} -> BOOLEAN],
          info \in [{1, 2} -> TwoInfos], src \in [{1, 2} -> {SourceA, SourceB}] :
           /\ dirs = fs.dirs
           /\ files = fs.files
           /\ pull = [p \in {1, 2} |-> AtGuard(force[p], fs, info[p], src[p])]
    /\ procs = <<>>
    /\ cl = ClOff

StepTwo(p) ==
    \/ Guard(p) \/ MkDir(p) \/ Resolve(p) \/ WriteSource(p) \/ ParsePayload(p)
    \/ WritePayload(p) \/ WriteMeta(p) \/ LocalTest(p) \/ Summary(p)

NextTwo == \E p \in {1, 2} : StepTwo(p)

SpecTwo == InitTwo /\ [][NextTwo]_vars

\* The same pull run twice in a row with the overwrite flag: when the first
\* call has returned Ok, the operator calls run_pull again with the same
\* arguments, on the filesystem the first call left.
TwicePayloadArgs == { <<None, None>>, <<None, Some(S_good_json)>>, <<Some(GoodInline), None>> }

InitTwice ==
    /\ \E fs \in FsInits, pa \in TwicePayloadArgs :
           /\ dirs = fs.dirs
           /\ files = fs.files
           /\ pull = [p \in {1, 2} |->
                         IF p = 1 THEN NewPull(TRUE, FALSE, pa, fs)
                         ELSE [NewPull(TRUE, FALSE, pa, fs) EXCEPT !.pc = "off"]]
    /\ procs = <<>>
    /\ cl = ClOff

Rerun ==
    /\ pull[1].pc = "done"
    /\ pull[1].result.ok
    /\ pull[2].pc = "off"
    /\ pull' = [pull EXCEPT ![2] =
                   NewPull(pull[1].force, pull[1].test,
                           <<pull[1].payload, pull[1].payload_file>>,
                           [dirs |-> dirs, files |-> files])]
    /\ UNCHANGED <<dirs, files, procs, cl>>

StepTwice(p) == FetchFn(p) \/ FetchCode(p) \/ Extract(p) \/ StepTwo(p)

NextTwice == Rerun \/ \E p \in {1, 2} : StepTwice(p)

SpecTwice == InitTwice /\ [][NextTwice]_vars

-----------------------------------------------------------------------------
(* Properties of the pull.                                                 *)

Failed(r) == r.pc = "done" /\ ~r.result.ok
Succeeded(r) == r.pc = "done" /\ r.result.ok
FsUntouched(r) == dirs = r.fs0.dirs /\ files = r.fs0.files
TargetExisted(r) == FnDir(r) \in r.fs0.dirs \/ FnDir(r) \in DOMAIN r.fs0.files
\* the steps after the existence guard
PastGuard(r) ==
    r.pc \in {"mkdir", "resolve", "write_source", "parse_payload", "write_payload",
              "write_meta", "local_test", "probe", "dispatch", "driver", "summary"}
\* both remote answers were received
Fetched(r) == r.pc \notin {"fetch_fn", "fetch_code"} /\ r.result.kind # "Http"
Blank(text) == \A i \in 1..Len(text) : text[i] \in {" ", "\t", "\n"}
ProbesOf(p) == SelectSeq(procs, LAMBDA e : e.kind = "probe" /\ e.by = p)
DriversOf(p) == SelectSeq(procs, LAMBDA e : e.kind = "driver" /\ e.by = p)

\* C1: a pull into a target directory that already exists, without the
\* overwrite flag, never gets past the existence guard: it ends in an error,
\* which is the input error "directory exists" once both fetches and the
\* source check have passed, and at no point is a directory created, a file
\* written or changed, or a subprocess started.
C1_ExistingDirBlocks ==
    \A p \in DOMAIN pull :
        LET r == pull[p] IN
        (TargetExisted(r) /\ ~r.force) =>
            /\ FsUntouched(r)
            /\ procs = <<>>
            /\ ~PastGuard(r)
            /\ r.pc = "done" => ~r.result.ok
            /\ (r.pc = "done" /\ Fetched(r) /\ ~Blank(r.source_code))
                   => r.result = Error("Input", "directory_exists")

C1_Witness ==
    \E p \in DOMAIN pull :
        /\ pull[p].fs0.files # UserFiles
        /\ ~pull[p].force
        /\ pull[p].test
        /\ pull[p].result = Error("Input", "directory_exists")

\* C2: a pull whose code answer yields an empty or whitespace-only source
\* text (also when neither field is present) stops at the source check with
\* the input error "no source code", and writes nothing.
C2_BlankSourceFails ==
    \A p \in DOMAIN pull :
        LET r == pull[p] IN
        (Fetched(r) /\ Blank(r.source_code)) =>
            /\ FsUntouched(r)
            /\ procs = <<>>
            /\ r.pc \in {"extract", "done"}
            /\ r.pc = "done" => r.result = Error("Input", "no_source_code")

C2_Witness ==
    \E p \in DOMAIN pull :
        /\ pull[p].result = Error("Input", "no_source_code")
        /\ pull[p].code_info.source_code = JAbsent
        /\ pull[p].code_info.code.t = "str"
        /\ pull[p].code_info.code.s # <<>>
        /\ pull[p].force

\* C3: in every state of a pull into a fresh directory, the metadata file
\* exists only if the source file and payload.json exist.
C3_MetadataLast ==
    \A p \in DOMAIN pull :
        LET r == pull[p] IN
        (~TargetExisted(r) /\ MetadataPath(r) \in DOMAIN files) =>
            /\ SourcePath(r) \in DOMAIN files
            /\ PayloadPath(r) \in DOMAIN files

C3_Witness ==
    \E p \in DOMAIN pull :
        /\ ~TargetExisted(pull[p])
        /\ MetadataPath(pull[p]) \in DOMAIN files
        /\ files[MetadataPath(pull[p])] = PartialText
        /\ Failed(pull[p])

\* C4 as stated: a local test requested for a Go function always ends
\* Skipped, never Executed and never in an error.
C4_AsStated ==
    \A p \in DOMAIN pull :
        LET r == pull[p] IN
        (r.family = "Go" /\ r.pc = "done") =>
            /\ r.result.ok
            /\ r.outcome.tag = "Skipped"

GoProbeSucceeded(p) ==
    \E i \in 1..Len(procs) :
        procs[i].kind = "probe" /\ procs[i].by = p /\ procs[i].bin = "go"
            /\ procs[i].status = "exit_zero"

\* C4 (amended): a local test requested for a Go function never ends
\* Executed and starts no driver; it ends Skipped, naming the toolchain found,
\* when the probe of `go` exits with zero, and in the missing-toolchain error
\* when it does not.
C4_GoSkippedOrMissing ==
    \A p \in DOMAIN pull :
        LET r == pull[p] IN
        r.family = "Go" =>
            /\ r.outcome.tag # "Executed"
            /\ DriversOf(p) = <<>>
            /\ r.pc \in {"summary", "done"} =>
                   IF GoProbeSucceeded(p)
                   THEN /\ r.outcome.tag = "Skipped"
                        /\ r.outcome.reason = "toolchain_installed"
                        /\ r.outcome.tool = "go"
                        /\ r.local_test_status = "skipped"
                        /\ r.pc = "done" => r.result.ok
                   ELSE /\ r.outcome = NoOutcome
                        /\ r.result = Error("Input", "missing_toolchain")

C4_Witness ==
    \E p \in DOMAIN pull :
        /\ pull[p].family = "Go"
        /\ pull[p].result = Error("Input", "missing_toolchain")
        /\ Len(ProbesOf(p)) = 1

\* C5 as stated: a local test requested for a runtime of the Unknown family
\* returns Skipped with the reason "runtime not recognized", not an error.
C5_AsStated ==
    \A p \in DOMAIN pull :
        LET r == pull[p] IN
        (r.family = "Unknown" /\ r.pc = "done") =>
            /\ r.result.ok
            /\ r.outcome.tag = "Skipped"
            /\ r.outcome.reason = "runtime_not_recognized"

LocalTestErrors == {"missing_toolchain", "local_test_failed", "spawn"}

\* C6 as stated: no pull returns an error after a toolchain probe or a
\* driver subprocess has been started.
C6_AsStated ==
    \A p \in DOMAIN pull :
        Failed(pull[p]) => ProbesOf(p) = <<>> /\ DriversOf(p) = <<>>

\* C6 (amended): a pull returns either Ok with a summary or an error without
\* one.  An error of any step before the local test comes with no probe and
\* no driver started.  A pull can also fail after probes or a driver were
\* started, and then only with the local test's own error: the
\* missing-toolchain error when no probe succeeded, or the driver's error
\* (Python and Node only); the three files are then already written.
C6_FailureShape ==
    \A p \in DOMAIN pull :
        LET r == pull[p] IN
        /\ Succeeded(r) => r.summary # "none"
        /\ Failed(r) =>
            /\ r.summary = "none"
            /\ r.result.what \notin (LocalTestErrors \cup {"runtime_not_recognized"})
                   => ProbesOf(p) = <<>> /\ DriversOf(p) = <<>>
            /\ (ProbesOf(p) # <<>> \/ DriversOf(p) # <<>>) =>
                   /\ r.test
                   /\ r.result.what \in LocalTestErrors
                   /\ {SourcePath(r), PayloadPath(r), MetadataPath(r)} \subseteq DOMAIN files
                   /\ r.result.what = "missing_toolchain" =>
                          /\ DriversOf(p) = <<>>
                          /\ \A i \in 1..Len(ProbesOf(p)) :
                                 ProbesOf(p)[i].status # "exit_zero"
                   /\ r.result.what \in {"local_test_failed", "spawn"} =>
                          /\ r.family \in {"Python", "Node"}
                          /\ Len(DriversOf(p)) = 1

C6_Witness ==
    \E p \in DOMAIN pull :
        /\ Failed(pull[p])
        /\ pull[p].result.what = "local_test_failed"
        /\ pull[p].result.detail = S_unknown_error
        /\ Len(ProbesOf(p)) = 2

\* the three files of the pull have been written
WroteAll(r) ==
    \/ r.pc \in {"local_test", "probe", "dispatch", "driver", "summary"}
    \/ /\ r.pc = "done"
       /\ r.result.ok \/ r.result.what \in (LocalTestErrors \cup {"runtime_not_recognized"})

\* the text of a field of the remote record, or the documented default
FieldOr(field, default) == IF field.t = "str" THEN field.s ELSE default

\* C12: with the overwrite flag, a pull into an existing directory that gets
\* through its writes leaves the source file holding the fetched source text
\* unmodified, payload.json pretty-printed, and the metadata file holding the
\* name, the record's runtime and handler (defaulted when absent), the
\* resolved relative source path, the payload file name and the full record.
C12_OverwriteMatchesRemote ==
    \A p \in DOMAIN pull :
        LET r == pull[p] IN
        (r.force /\ TargetExisted(r) /\ WroteAll(r)) =>
            /\ {SourcePath(r), PayloadPath(r), MetadataPath(r)} \subseteq DOMAIN files
            /\ files[SourcePath(r)] = [fmt |-> "raw", text |-> r.source_code]
            /\ ~Blank(r.source_code)
            /\ files[PayloadPath(r)].fmt = "pretty"
            /\ LET m == files[MetadataPath(r)] IN
               /\ m.fmt = "pretty"
               /\ m.json.name = S_fn
               /\ m.json.runtime = FieldOr(r.fn_info.runtime, S_unknown)
               /\ m.json.handler = FieldOr(r.fn_info.handler, S_handler)
               /\ m.json.source_file = source_file_rel_path(m.json.runtime, m.json.handler)
               /\ SourcePath(r) = join(OutFnDir, m.json.source_file)
               /\ m.json.payload_file = S_payload_json
               /\ m.json.function = r.fn_info

C12_Witness ==
    \E p \in DOMAIN pull :
        /\ pull[p].force
        /\ pull[p].fs0.files # UserFiles
        /\ Succeeded(pull[p])
        /\ pull[p].fn_info.runtime = JAbsent
        /\ pull[p].fn_info.handler.t = "str"
        /\ files[MetadataPath(pull[p])] # pull[p].fs0.files[MetadataPath(pull[p])]

\* C13: a pull with the overwrite flag into an existing directory changes
\* only the resolved source file, payload.json and function.meta.json: every
\* other file that was there (a source file left by an earlier pull at
\* another path included) stays, with its content, and no directory goes.
C13_OtherFilesKept ==
    \A p \in DOMAIN pull :
        LET r == pull[p] IN
        (r.force /\ TargetExisted(r)) =>
            /\ r.fs0.dirs \subseteq dirs
            /\ \A path \in DOMAIN r.fs0.files :
                   path \notin {SourcePath(r), join(OutFnDir, S_payload_json),
                                join(OutFnDir, S_meta_json)}
                       => path \in DOMAIN files /\ files[path] = r.fs0.files[path]

C13_Witness ==
    \E p \in DOMAIN pull :
        /\ pull[p].force
        /\ Succeeded(pull[p])
        /\ join(OutFnDir, S_old_py) \in DOMAIN pull[p].fs0.files
        /\ join(OutFnDir, S_old_py) \in DOMAIN files
        /\ SourcePath(pull[p]) # join(OutFnDir, S_old_py)
        /\ files[join(OutFnDir, S_payload_json)] # pull[p].fs0.files[join(OutFnDir, S_payload_json)]

\* the candidate executables of each family, as documented
DocCandidates(family) ==
    CASE family = "Python" -> <<"python3", "python">>
      [] family = "Node"   -> <<"node">>
      [] family = "Go"     -> <<"go">>
      [] family = "Rust"   -> <<"cargo", "rustc">>
      [] family = "Java"   -> <<"java">>
      [] OTHER             -> <<>>

KnownFamilies == {"Python", "Node", "Go", "Rust", "Java"}

\* every candidate of the pull's family was probed and none exited with zero
AllCandidatesFailed(p) ==
    /\ pull[p].family \in KnownFamilies
    /\ Len(ProbesOf(p)) = Len(DocCandidates(pull[p].family))
    /\ \A i \in 1..Len(ProbesOf(p)) : ProbesOf(p)[i].status \in {"exit_nonzero", "spawn_error"}

\* C14: when none of the family's candidates answers the version probe with
\* exit code zero, run_local_test fails with the missing-toolchain error and
\* no driver subprocess is ever started.
C14_NoToolchainNoDriver ==
    \A p \in DOMAIN pull :
        LET r == pull[p] IN
        AllCandidatesFailed(p) =>
            /\ DriversOf(p) = <<>>
            /\ r.outcome = NoOutcome
            /\ r.tool = "none"
            /\ r.pc \in {"probe", "done"}
            /\ r.pc = "probe" => r.cands = <<>>
            /\ r.pc = "done" => r.result = Error("Input", "missing_toolchain")

C14_Witness ==
    \E p \in DOMAIN pull :
        /\ AllCandidatesFailed(p)
        /\ pull[p].family = "Python"
        /\ ProbesOf(p)[1].status = "exit_nonzero"
        /\ ProbesOf(p)[2].status = "spawn_error"
        /\ pull[p].pc = "done"

\* C15: the locator probes the family's candidates one at a time in the
\* documented order; a non-zero exit and a spawn failure both make the search
\* go on to the next candidate; the first candidate whose probe exits with
\* zero is returned, and no candidate after it is probed.
C15_ProbesInOrder ==
    \A p \in DOMAIN pull :
        LET r  == pull[p]
            pr == ProbesOf(p)
            dc == DocCandidates(r.family)
            n  == Len(ProbesOf(p))
        IN
        r.family \in KnownFamilies =>
            /\ n <= Len(dc)
            /\ \A i \in 1..n : pr[i].bin = dc[i]
            /\ \A i \in 1..(n - 1) : pr[i].status \in {"exit_nonzero", "spawn_error"}
            /\ r.tool # "none" <=> (n > 0 /\ pr[n].status = "exit_zero")
            /\ r.tool # "none" => r.tool = dc[n] /\ r.pc # "probe"
            /\ (n > 0 /\ n < Len(dc) /\ pr[n].status # "exit_zero")
                   => r.pc = "probe" /\ r.cands # <<>> /\ Head(r.cands) = dc[n + 1]

C15_Witness ==
    \E p \in DOMAIN pull :
        /\ pull[p].family = "Rust"
        /\ Len(ProbesOf(p)) = 2
        /\ ProbesOf(p)[1].status = "spawn_error"
        /\ ProbesOf(p)[2].status = "exit_zero"
        /\ pull[p].tool = "rustc"
        /\ Succeeded(pull[p])

\* C16: a local test requested for a runtime that none of the family rules
\* recognises fails at once: no executable is probed and no driver is started,
\* the locator is never entered, and once the files are written the pull ends
\* in the input error "runtime not recognized".
C16_UnknownFailsUnprobed ==
    \A p \in DOMAIN pull :
        LET r == pull[p] IN
        (r.test /\ Fetched(r) /\ RulesHolding(r.runtime) = {}) =>
            /\ ProbesOf(p) = <<>>
            /\ DriversOf(p) = <<>>
            /\ r.tool = "none"
            /\ r.cands = <<>>
            /\ r.outcome = NoOutcome
            /\ r.pc \notin {"probe", "dispatch", "driver", "summary"}
            /\ r.pc = "done" => ~r.result.ok
            /\ (r.pc = "done" /\ WroteAll(r)) =>
                   r.result = Error("Input", "runtime_not_recognized")
            /\ r.family \in {"none", "Unknown"}
            /\ r.family = "Unknown" <=> r.result = Error("Input", "runtime_not_recognized")

C16_Witness ==
    \E p \in DOMAIN pull :
        /\ pull[p].test
        /\ pull[p].runtime = S_go122
        /\ pull[p].result = Error("Input", "runtime_not_recognized")
        /\ files[MetadataPath(pull[p])].fmt = "pretty"
        /\ procs = <<>>

\* C17: a local test that returns Executed, which only a Python or Node
\* function does, has launched exactly one driver subprocess, the one that
\* exited with zero; no pull launches a driver twice; a local test that
\* returns Skipped, or fails in the toolchain locator, has launched none.
C17_OneDriverNoRetry ==
    \A p \in DOMAIN pull :
        LET r == pull[p] IN
        /\ Len(DriversOf(p)) <= 1
        /\ r.outcome.tag = "Executed" =>
               /\ r.family \in {"Python", "Node"}
               /\ Len(DriversOf(p)) = 1
               /\ DriversOf(p)[1].status = "exit_zero"
               /\ DriversOf(p)[1].bin = r.tool
        /\ r.outcome.tag = "Skipped" => DriversOf(p) = <<>>
        /\ r.result.what \in {"missing_toolchain", "runtime_not_recognized"} =>
               DriversOf(p) = <<>>
        /\ r.result.what \in {"local_test_failed", "spawn"} => Len(DriversOf(p)) = 1

C17_Witness ==
    \E p \in DOMAIN pull :
        /\ pull[p].outcome.tag = "Executed"
        /\ pull[p].family = "Node"
        /\ Len(DriversOf(p)) = 1
        /\ Succeeded(pull[p])

\* t is s without its surrounding whitespace
IsTrimOf(t, s) ==
    /\ t = <<>> \/ (t[1] \notin {" ", "\t", "\n"} /\ t[Len(t)] \notin {" ", "\t", "\n"})
    /\ \E a, b \in 0..Len(s) :
           /\ a + b <= Len(s)
           /\ \A i \in 1..a : s[i] \in {" ", "\t", "\n"}
           /\ \A i \in (Len(s) - b + 1)..Len(s) : s[i] \in {" ", "\t", "\n"}
           /\ t = SubSeq(s, a + 1, Len(s) - b)

\* C18: a Python or Node driver that exits non-zero makes the local test, and
\* the pull, end in an input error and never in Executed; the error carries
\* the captured standard-error text, surfaced like all subprocess output
\* without its surrounding whitespace, or "unknown error" when nothing is
\* left of it; a driver that exits with zero gives Executed with the captured
\* standard output without its surrounding whitespace, and no error.
C18_DriverExitStatus ==
    \A p \in DOMAIN pull :
        \A i \in 1..Len(DriversOf(p)) :
            LET r == pull[p]
                d == DriversOf(p)[i]
            IN
            /\ d.status = "exit_nonzero" =>
                   /\ Failed(r)
                   /\ r.outcome.tag # "Executed"
                   /\ r.result.kind = "Input"
                   /\ r.result.what = "local_test_failed"
                   /\ IF Blank(d.stderr)
                      THEN r.result.detail = S_unknown_error
                      ELSE IsTrimOf(r.result.detail, d.stderr)
            /\ d.status = "exit_zero" =>
                   /\ r.outcome.tag = "Executed"
                   /\ r.outcome.command = d.bin
                   /\ IsTrimOf(r.outcome.output, d.stdout)
                   /\ r.result \in {Running, Done}

C18_Witness ==
    \E p \in DOMAIN pull :
        /\ Len(DriversOf(p)) = 1
        /\ DriversOf(p)[1].status = "exit_nonzero"
        /\ DriversOf(p)[1].stderr = <<"\n", "E", " ">>
        /\ pull[p].result = ErrorWith("Input", "local_test_failed", <<"E">>)

\* the pull has returned an error
Errored(r) == ~r.result.ok /\ r.result.kind # "none"

\* C19: the pull is terminal on its first failure: once any step has failed
\* the pull has returned, nothing changes any more (no later step runs, no
\* file or directory is written, no subprocess is started) and no summary is
\* produced; when it is one of the two remote fetches that failed, the
\* filesystem is as the pull found it and no subprocess was started.
C19_TerminalOnFirstFailure ==
    /\ [][\A p \in DOMAIN pull : Errored(pull[p]) => UNCHANGED vars]_vars
    /\ [](\A p \in DOMAIN pull :
             LET r == pull[p] IN
             Errored(r) =>
                 /\ r.pc = "done"
                 /\ r.summary = "none"
                 /\ r.result.kind = "Http" =>
                        /\ FsUntouched(r)
                        /\ ProbesOf(p) = <<>>
                        /\ DriversOf(p) = <<>>)

C19_Witness ==
    \E p \in DOMAIN pull :
        /\ pull[p].result = Error("Http", "fetch_code")
        /\ pull[p].fn_info # NoInfo
        /\ pull[p].force
        /\ pull[p].test
        /\ TargetExisted(pull[p])
        /\ FsUntouched(pull[p])
        /\ procs = <<>>

\* C20: a pull that was not asked for a local test starts no probe and no
\* driver; the summary of a successful pull reports "not-run" exactly when no
\* test was requested, "executed" exactly when the local test returned
\* Executed and "skipped" exactly when it returned Skipped; a pull that did
\* not succeed has no summary.
C20_SummaryStatus ==
    \A p \in DOMAIN pull :
        LET r == pull[p] IN
        /\ ~r.test => ProbesOf(p) = <<>> /\ DriversOf(p) = <<>> /\ r.outcome = NoOutcome
        /\ Succeeded(r) =>
               /\ r.summary \in {"not-run", "executed", "skipped"}
               /\ r.summary = "not-run" <=> ~r.test
               /\ r.summary = "executed" <=> r.outcome.tag = "Executed"
               /\ r.summary = "skipped" <=> r.outcome.tag = "Skipped"
        /\ ~Succeeded(r) => r.summary = "none"

C20_Witness ==
    \E p \in DOMAIN pull :
        /\ Succeeded(pull[p])
        /\ pull[p].test
        /\ pull[p].family = "Rust"
        /\ pull[p].outcome.tag = "Skipped"
        /\ pull[p].summary = "skipped"

\* a field of the code answer that holds non-blank text
HoldsText(field) == field.t = "str" /\ ~Blank(field.s)

\* C21 as stated: whenever the code answer holds non-blank text under
\* `source_code` or under `code`, the pull gets past the source check, and
\* the source text it goes on with is such a text of the answer.
C21_AsStated ==
    \A p \in DOMAIN pull :
        LET r  == pull[p]
            ci == pull[p].code_info
        IN
        (r.code_info # NoCode /\ (HoldsText(ci.source_code) \/ HoldsText(ci.code))) =>
            /\ r.result.what # "no_source_code"
            /\ \/ HoldsText(ci.source_code) /\ r.source_code = ci.source_code.s
               \/ HoldsText(ci.code) /\ r.source_code = ci.code.s

\* the payload arguments of the pull, as the operator gave them
IsJson(t) == t.fmt \in {"compact", "pretty"}
PayloadFileOf(r) == PathFrom(r.payload_file.v)
PayloadUnresolvable(r) ==
    IF r.payload.some THEN ~IsJson(r.payload.v)
    ELSE /\ r.payload_file.some
         /\ \/ PayloadFileOf(r) \notin DOMAIN r.fs0.files
            \/ ~IsJson(r.fs0.files[PayloadFileOf(r)])
ExpectedPayload(r) ==
    IF r.payload.some THEN r.payload.v.json
    ELSE IF r.payload_file.some THEN r.fs0.files[PayloadFileOf(r)].json
    ELSE "obj_empty"
PayloadErrors == {"invalid_json_payload", "cannot_read_file", "invalid_json_in_file"}
\* the failures of the steps before payload resolution
EarlierErrors ==
    {"fetch_function", "fetch_code", "no_source_code", "directory_exists",
     "create_dir_all", "write"}
\* the steps after payload.json was written
PastPayload(r) ==
    \/ r.pc \in {"write_meta", "local_test", "probe", "dispatch", "driver", "summary"}
    \/ WroteAll(r)
\* a file is as the pull found it
AsFound(r, path) ==
    IF path \in DOMAIN r.fs0.files
    THEN path \in DOMAIN files /\ files[path] = r.fs0.files[path]
    ELSE path \notin DOMAIN files

\* C22: once payload.json is written it holds, pretty-printed, the inline
\* JSON when one is given (whatever the payload file), otherwise the JSON
\* read from the payload file, otherwise the empty object; an inline string
\* or a file content that is no JSON, or a file that cannot be read, makes
\* the pull fail with an input error at payload resolution, payload.json
\* being left as it was; and only such arguments give such an error.
C22_PayloadPrecedence ==
    \A p \in DOMAIN pull :
        LET r == pull[p] IN
        /\ PastPayload(r) =>
               /\ ~PayloadUnresolvable(r)
               /\ PayloadPath(r) \in DOMAIN files
               /\ files[PayloadPath(r)] = JsonText("pretty", ExpectedPayload(r))
        /\ PayloadUnresolvable(r) =>
               /\ AsFound(r, PayloadPath(r))
               /\ ~Succeeded(r)
               /\ (r.pc = "done" /\ r.result.what \notin EarlierErrors) =>
                      r.result.kind = "Input" /\ r.result.what \in PayloadErrors
        /\ r.result.what \in PayloadErrors =>
               /\ PayloadUnresolvable(r)
               /\ r.result.kind = "Input"
               /\ r.result.what = "invalid_json_payload" <=> r.payload.some

C22_Witness ==
    \E p \in DOMAIN pull :
        /\ pull[p].payload = Some(GoodInline)
        /\ pull[p].payload_file = Some(S_bad_json)
        /\ pull[p].fs0.files # UserFiles
        /\ Succeeded(pull[p])
        /\ files[PayloadPath(pull[p])] = JsonText("pretty", "obj_inline")

\* C23: when a local test is requested, the dispatcher is called with the
\* runtime and handler that the metadata file on disk holds and with the
\* paths of the source file and of payload.json as the pull just wrote them;
\* that runtime and handler are the ones the layout resolver was given: the
\* function record's, or "unknown" and "handler" where the record has none.
C23_TestUsesPersisted ==
    \A p \in DOMAIN pull :
        LET r == pull[p] IN
        /\ (r.test /\ r.pc \in {"probe", "dispatch", "driver"}) => r.call # NoCall
        /\ r.call # NoCall =>
               /\ r.test
               /\ MetadataPath(r) \in DOMAIN files
               /\ files[MetadataPath(r)].fmt = "pretty"
               /\ r.call.runtime = files[MetadataPath(r)].json.runtime
               /\ r.call.handler = files[MetadataPath(r)].json.handler
               /\ r.call.source_path \in DOMAIN files
               /\ files[r.call.source_path] = RawText(r.source_code)
               /\ r.call.source_path
                      = join(FnDir(r), files[MetadataPath(r)].json.source_file)
               /\ r.call.payload_path = join(FnDir(r), S_payload_json)
               /\ r.call.payload_path \in DOMAIN files
               /\ files[r.call.payload_path] = JsonText("pretty", r.payload_value)
               /\ r.call.runtime = FieldOr(r.fn_info.runtime, S_unknown)
               /\ r.call.handler = FieldOr(r.fn_info.handler, S_handler)
               /\ r.source_rel_path = source_file_rel_path(r.call.runtime, r.call.handler)
               /\ r.family \in RuntimeFamily
               /\ r.family = "Unknown" <=> RulesHolding(r.call.runtime) = {}

C23_Witness ==
    \E p \in DOMAIN pull :
        /\ pull[p].call # NoCall
        /\ pull[p].fn_info.runtime = JOther
        /\ pull[p].fn_info.handler = JAbsent
        /\ pull[p].call.runtime = S_unknown
        /\ pull[p].call.handler = S_handler
        /\ pull[p].fs0.files # UserFiles

\* the files that are not as the pull found them
WrittenBy(r) == {path \in DOMAIN files : ~AsFound(r, path)}

\* C24 as stated: every file a pull writes lies under <outputDir>/<name>/,
\* whatever runtime and handler the function record carries.
C24_AsStated ==
    \A p \in DOMAIN pull :
        \A path \in WrittenBy(pull[p]) : IsUnder(path, FnDir(pull[p]))

\* C25: two pulls of one function into one directory are not coordinated.
\* A pull is stopped at the existence guard exactly when the directory is
\* there and it has no overwrite flag, whatever the other pull is doing; and
\* each file holds what the last pull to write it wrote, so that once both
\* pulls have written their files, the source file is the one pull's or the
\* other's and so is, independently, the metadata file. (The state in which
\* both pulls got past the guard without the flag and the directory holds
\* the source of one and the metadata of the other is reached.)
C25_Uncoordinated ==
    /\ [][\A p \in DOMAIN pull :
             (pull[p].pc = "guard" /\ pull'[p].pc # "guard") =>
                 /\ pull'[p].result = Error("Input", "directory_exists")
                        <=> (exists(FnDir(pull[p])) /\ ~pull[p].force)
                 /\ pull'[p].pc = "mkdir"
                        <=> ~(exists(FnDir(pull[p])) /\ ~pull[p].force)]_vars
    /\ []((\A p \in DOMAIN pull : WroteAll(pull[p])) =>
             /\ \A p \in DOMAIN pull :
                    files[SourcePath(pull[p])]
                        \in {RawText(pull[q].source_code) : q \in DOMAIN pull}
             /\ \A p \in DOMAIN pull :
                    files[MetadataPath(pull[p])]
                        \in {JsonText("pretty", pull[q].metadata) : q \in DOMAIN pull})

C25_Witness ==
    /\ DOMAIN pull = {1, 2}
    /\ \A p \in DOMAIN pull :
           /\ Succeeded(pull[p])
           /\ ~pull[p].force
           /\ ~TargetExisted(pull[p])
    /\ SourcePath(pull[1]) = SourcePath(pull[2])
    /\ pull[1].source_code # pull[2].source_code
    /\ pull[1].metadata # pull[2].metadata
    /\ files[SourcePath(pull[1])] = RawText(pull[1].source_code)
    /\ files[MetadataPath(pull[1])] = JsonText("pretty", pull[2].metadata)

\* C26 as stated: for a Go, Rust or Java function whose toolchain is found,
\* the directory named in the skip reason is the pull's target directory.
C26_AsStated ==
    \A p \in DOMAIN pull :
        LET r == pull[p] IN
        (r.family \in {"Go", "Rust", "Java"} /\ r.outcome.tag = "Skipped") =>
            r.outcome.dir = Some(FnDir(r))

\* C27 as stated: the module file the Node driver loads is the file the
\* pull wrote the source to, for every Node-family handler string.
C27_AsStated ==
    \A p \in DOMAIN pull :
        \A i \in 1..Len(DriversOf(p)) :
            pull[p].family = "Node" =>
                /\ DriversOf(p)[i].loads = SourcePath(pull[p])
                /\ DriversOf(p)[i].loads \in DOMAIN files

\* the three files of the pull are on disk as the pull wrote them
ThreeFilesWritten(r) ==
    /\ SourcePath(r) \in DOMAIN files
    /\ files[SourcePath(r)] = RawText(r.source_code)
    /\ PayloadPath(r) \in DOMAIN files
    /\ files[PayloadPath(r)] = JsonText("pretty", r.payload_value)
    /\ MetadataPath(r) \in DOMAIN files
    /\ files[MetadataPath(r)].fmt = "pretty"
    /\ files[MetadataPath(r)].json.name = r.name
    /\ files[MetadataPath(r)].json.runtime = r.runtime
    /\ files[MetadataPath(r)].json.handler = r.handler
    /\ files[MetadataPath(r)].json.source_file = r.source_rel_path
    /\ files[MetadataPath(r)].json.function = r.fn_info

\* C28: no toolchain probe and no driver is started, and the dispatcher is
\* not entered, before the pull has written its source file, payload.json
\* and function.meta.json; a pull that fails in toolchain location or in the
\* driver returns its error with the three files on disk.
C28_FilesBeforeTest ==
    \A p \in DOMAIN pull :
        LET r == pull[p] IN
        /\ (ProbesOf(p) # <<>> \/ DriversOf(p) # <<>> \/ r.call # NoCall) =>
               r.test /\ ThreeFilesWritten(r)
        /\ r.result.what \in
               {"runtime_not_recognized", "missing_toolchain", "local_test_failed", "spawn"} =>
               /\ Failed(r)
               /\ r.test
               /\ ThreeFilesWritten(r)
               /\ r.summary = "none"

C28_Witness ==
    \E p \in DOMAIN pull :
        /\ pull[p].result.what = "local_test_failed"
        /\ ~TargetExisted(pull[p])
        /\ Len(ProbesOf(p)) = 2
        /\ Len(DriversOf(p)) = 1
        /\ ThreeFilesWritten(pull[p])

\* C29: a pull whose payload cannot be resolved (inline string that is no
\* JSON, payload file that cannot be read or holds no JSON) fails with the
\* target directory created and the source file written, both left in place,
\* with payload.json and function.meta.json as the pull found them, and with
\* no subprocess started and no summary.
C29_PayloadFailureLeavesSource ==
    \A p \in DOMAIN pull :
        LET r == pull[p] IN
        r.result.what \in PayloadErrors =>
            /\ Failed(r)
            /\ PayloadUnresolvable(r)
            /\ FnDir(r) \in dirs
            /\ SourcePath(r) \in DOMAIN files
            /\ files[SourcePath(r)] = RawText(r.source_code)
            /\ AsFound(r, PayloadPath(r))
            /\ AsFound(r, MetadataPath(r))
            /\ WrittenBy(r) \subseteq {SourcePath(r)}
            /\ procs = <<>>
            /\ r.summary = "none"

C29_Witness ==
    \E p \in DOMAIN pull :
        /\ pull[p].result = Error("Input", "cannot_read_file")
        /\ ~TargetExisted(pull[p])
        /\ FnDir(pull[p]) \in dirs
        /\ WrittenBy(pull[p]) = {SourcePath(pull[p])}
        /\ IsUnder(SourcePath(pull[p]), FnDir(pull[p]))

\* the second pull got the answers the first pull got
SameRemote(a, b) == a.fn_info = b.fn_info /\ a.source_code = b.source_code

\* C30: a pull with the overwrite flag, run a second time after it succeeded,
\* with the same arguments, an unchanged function record and unchanged
\* source, and succeeding again, leaves every directory and every file as
\* the first run left them.
C30_ForcedPullIdempotent ==
    (/\ Succeeded(pull[1])
     /\ Succeeded(pull[2])
     /\ pull[1].force /\ pull[2].force
     /\ SameRemote(pull[1], pull[2])) =>
        /\ dirs = pull[2].fs0.dirs
        /\ files = pull[2].fs0.files
        /\ ThreeFilesWritten(pull[1])
        /\ ThreeFilesWritten(pull[2])

C30_Witness ==
    /\ Succeeded(pull[1])
    /\ Succeeded(pull[2])
    /\ SameRemote(pull[1], pull[2])
    /\ ~TargetExisted(pull[1])
    /\ TargetExisted(pull[2])
    /\ pull[2].payload_file = Some(S_good_json)
    /\ files = pull[2].fs0.files
    /\ files # pull[1].fs0.files
    /\ ThreeFilesWritten(pull[2])

=============================================================================
